---- MODULE Spec2Model ----
(***************************************************************************)
(* Model of src/kernel_initial.cpp: the OpenCL kernel wave_update and the  *)
(* host program main that enqueues TIMESTEPS rounds of                     *)
(*     kernel ; copy bufferNext -> bufferPrevious ;                        *)
(*              copy bufferCurrent -> bufferNext                           *)
(* on one in-order command queue, waits once (finish) and reads            *)
(* bufferCurrent back.                                                     *)
(*                                                                         *)
(* Field values are single-precision floats in the source.  The model      *)
(* keeps them as fixed-point integers in units of 1/k.den, where the       *)
(* coefficient dt_dx2 is the rational k.num/k.den with k.den a power of    *)
(* two, and draws the initial displacements from small whole numbers: on   *)
(* these inputs every float operation of the kernel is exact, and so is    *)
(* the fixed-point arithmetic (ExactArithmetic below).                     *)
(***************************************************************************)
EXTENDS Integers, Sequences, FiniteSets, TLC

\* ------------------------------------------------------------------ bounds
MaxDim == 3        \* WIDTH and HEIGHT range over 1 .. MaxDim
MaxT == 2          \* TIMESTEPS ranges over 1 .. MaxT
ParMaxCells == 9   \* largest grid whose work items are interleaved one by one
Pad == 1           \* work items up to Pad outside the grid are applied to the kernel
LongT == 4         \* TIMESTEPS of the runs that follow the fields over several steps

\* ------------------------------------------------------- program constants
WATER_ELEVATION == -100
LAND_ELEVATION == 100
SPLASH == 10
SPLASH_R2 == 4
GRID == 512
LAND_CENTRE == 400
LAND_RADIUS == 50

VARIABLES
    cfg,          \* WIDTH, HEIGHT, TIMESTEPS, dt_dx2 and the host's initial vectors
    mem,          \* device memory: buffer name -> contents
    pc,           \* the host's position in main
    t,            \* the loop counter of main
    cmds,         \* the commands enqueued so far, in enqueue order
    status,       \* per command: "queued", "running" or "complete"
    done,         \* per command: the work items a kernel command has executed
    hostCurrent,  \* the host vector current (overwritten by the readback)
    hist,         \* per dispatch: fields read as current/previous, field written
    wlog,         \* which command wrote which buffer in which timestep
    kacc,         \* the locations the latest command has read and written so far
    probe,        \* the single work item applied by the kernel-only specification
    outcome       \* how main ends: the exception caught, what it wrote to
                  \* std::cerr, its return value, and the commands issued
                  \* when the exception was thrown

vars ==
    <<cfg, mem, pc, t, cmds, status, done, hostCurrent, hist, wlog, kacc, probe, outcome>>

\* ------------------------------------------------------------- the inputs
Cells(W, H) == 0 .. (W * H - 1)

\* dt_dx2 = (WAVE_SPEED * WAVE_SPEED * DT * DT) / (DX * DX), as a rational
\* num/den: below and above the stability threshold of the scheme.
Coeffs == {[num |-> 1, den |-> 4], [num |-> 3, den |-> 4]}

\* The cells (i, j) with (i - ci)^2 + (j - cj)^2 <= r2: the shape of the splash
\* and of the land region in main's initialisation loop.
Disc(W, H, ci, cj, r2) ==
    {idx \in Cells(W, H) :
        ((idx \div W) - ci) * ((idx \div W) - ci)
        + ((idx % W) - cj) * ((idx % W) - cj) <= r2}

\* Mutant: the loop sets current[idx] = 10 only and leaves previous at 0.
HostInit_PreviousZero(W, H, T, k, land, splash) ==
    [W |-> W, H |-> H, T |-> T, k |-> k,
     elevation |-> [idx \in Cells(W, H) |->
                      IF idx \in land THEN LAND_ELEVATION ELSE WATER_ELEVATION],
     current |-> [idx \in Cells(W, H) |-> IF idx \in splash THEN SPLASH ELSE 0],
     previous |-> [idx \in Cells(W, H) |-> 0]]

\* main's initialisation loop: a splash region of current = previous = 10 and
\* a land region of elevation 100 in water of elevation -100.  The vectors
\* current and previous hold whole numbers here; the device buffers hold them
\* in fixed point (Fix).
HostInit(W, H, T, k, land, splash) ==
    [W |-> W, H |-> H, T |-> T, k |-> k,
     elevation |-> [idx \in Cells(W, H) |->
                      IF idx \in land THEN LAND_ELEVATION ELSE WATER_ELEVATION],
     current |-> [idx \in Cells(W, H) |-> IF idx \in splash THEN SPLASH ELSE 0],
     previous |-> [idx \in Cells(W, H) |-> IF idx \in splash THEN SPLASH ELSE 0]]

\* The splash of the source: the disc of squared radius 4 around the middle
\* of the grid.
CentreSplash(W, H) == Disc(W, H, H \div 2, W \div 2, SPLASH_R2)

\* The land of the source, scaled from its 512 x 512 grid to W x H: the disc
\* of radius 50 around (400, 400).
SourceLand(W, H) ==
    Disc(W, H, (LAND_CENTRE * H) \div GRID, (LAND_CENTRE * W) \div GRID,
         ((LAND_RADIUS * W) \div GRID) * ((LAND_RADIUS * W) \div GRID))

\* The land regions and splashes the model draws from: none, any single cell
\* (the source's discs scaled down to the small grid, anywhere on it), and
\* the splash of the source.
LandMaps(W, H) ==
    {{}} \cup {Disc(W, H, ci, cj, 0) : ci \in 0 .. H - 1, cj \in 0 .. W - 1}

SplashMaps(W, H) ==
    {{}, CentreSplash(W, H)}
    \cup {Disc(W, H, ci, cj, 0) : ci \in 0 .. H - 1, cj \in 0 .. W - 1}

SmallConfigs ==
    UNION {
        {HostInit(W, H, T, k, land, splash) :
            T \in 1 .. MaxT, k \in Coeffs,
            land \in LandMaps(W, H), splash \in SplashMaps(W, H)} :
        W \in 1 .. MaxDim, H \in 1 .. MaxDim}

\* The inputs of the specification that interleaves single work items: the
\* splash of the source, with and without its land, on every grid of at most
\* ParMaxCells cells.
ParConfigs ==
    UNION {
        {HostInit(W, H, T, [num |-> 1, den |-> 4], land, CentreSplash(W, H)) :
            T \in 1 .. MaxT, land \in {{}, SourceLand(W, H)}} :
        W \in 1 .. MaxDim, H \in 1 .. MaxDim}

\* The end-to-end scenario of the specification: 8 x 8, all water, one unit
\* of displacement at (4,4) in current and previous, k = 0.25, one timestep.
Scenario ==
    [W |-> 8, H |-> 8, T |-> 1, k |-> [num |-> 1, den |-> 4],
     elevation |-> [idx \in Cells(8, 8) |-> -1],
     current |-> [idx \in Cells(8, 8) |-> IF idx = 4 * 8 + 4 THEN 1 ELSE 0],
     previous |-> [idx \in Cells(8, 8) |-> IF idx = 4 * 8 + 4 THEN 1 ELSE 0]]

Configs == SmallConfigs \cup {Scenario}

\* ------------------------------------------------------------- arithmetic
\* A whole number as a fixed-point field value.
Fix(k, d) == d * k.den

\* dt_dx2 * x on fixed-point values.
Mul(k, x) == (k.num * x) \div k.den

\* -------------------------------------------------------------- the kernel
BufferNames == {"bufferCurrent", "bufferPrevious", "bufferNext", "bufferElevation"}

\* Mutant: the kernel is given bufferCurrent as its output, so it updates the
\* field in place.
KernelArgs_InPlace ==
    [current |-> "bufferCurrent", previous |-> "bufferPrevious",
     next |-> "bufferCurrent", elevation |-> "bufferElevation"]

\* kernel.setArg(0..3): the buffer bound to each pointer parameter.
KernelArgs ==
    [current |-> "bufferCurrent", previous |-> "bufferPrevious",
     next |-> "bufferNext", elevation |-> "bufferElevation"]

Loc(buf, idx) == [buf |-> buf, idx |-> idx]

\* buf[idx].  The kernel never indexes outside a buffer (C7), so the value an
\* out-of-range load yields is never observed.
Load(m, buf, idx) == IF idx \in DOMAIN m[buf] THEN m[buf][idx] ELSE 0

\* buf[idx] = v
Store(m, buf, idx, v) ==
    IF idx \in DOMAIN m[buf] THEN [m EXCEPT ![buf][idx] = v] ELSE m

\* Mutant: the upper row bound is tested with > instead of >=.
OutOfBounds_OffByOne(W, H, i, j) == i < 0 \/ i > H \/ j < 0 \/ j >= W

\* if (i < 0 || i >= HEIGHT || j < 0 || j >= WIDTH) return;
OutOfBounds(W, H, i, j) == i < 0 \/ i >= H \/ j < 0 \/ j >= W

\* Mutant: the land test is inverted.
IsLand_Inverted(m, a, idx) == Load(m, a.elevation, idx) < 0

\* if (elevation[idx] > 0.0f)
IsLand(m, a, idx) == Load(m, a.elevation, idx) > 0

\* Mutant: the last column is not treated as an edge.
IsEdge_NoLastColumn(W, H, i, j) == i = 0 \/ i = H - 1 \/ j = 0

\* else if (i == 0 || i == HEIGHT - 1 || j == 0 || j == WIDTH - 1)
IsEdge(W, H, i, j) == i = 0 \/ i = H - 1 \/ j = 0 \/ j = W - 1

\* The indices of current the propagation branch reads.
Stencil(W, idx) == {idx, idx - W, idx + W, idx - 1, idx + 1}

\* Mutant: previous[idx] is added instead of subtracted.
Propagate_PlusPrevious(m, a, W, k, idx) ==
    2 * Load(m, a.current, idx) + Load(m, a.previous, idx)
    + Mul(k, Load(m, a.current, idx - W) + Load(m, a.current, idx + W)
             + Load(m, a.current, idx - 1) + Load(m, a.current, idx + 1)
             - 4 * Load(m, a.current, idx))

\* 2.0f * current[idx] - previous[idx] + dt_dx2 * (current[idx - WIDTH] +
\*   current[idx + WIDTH] + current[idx - 1] + current[idx + 1] - 4.0f * current[idx])
Propagate(m, a, W, k, idx) ==
    2 * Load(m, a.current, idx) - Load(m, a.previous, idx)
    + Mul(k, Load(m, a.current, idx - W) + Load(m, a.current, idx + W)
             + Load(m, a.current, idx - 1) + Load(m, a.current, idx + 1)
             - 4 * Load(m, a.current, idx))

\* Mutant: the edge is tested before the land.
wave_update_EdgeFirst(m, a, W, H, k, i, j) ==
    LET idx == i * W + j IN
    IF OutOfBounds(W, H, i, j)
    THEN [mem |-> m, rd |-> {}, wr |-> {}]
    ELSE IF IsEdge(W, H, i, j)
    THEN [mem |-> Store(m, a.next, idx, 0),
          rd |-> {},
          wr |-> {Loc(a.next, idx)}]
    ELSE IF IsLand(m, a, idx)
    THEN [mem |-> Store(m, a.next, idx, Load(m, a.current, idx)),
          rd |-> {Loc(a.elevation, idx), Loc(a.current, idx)},
          wr |-> {Loc(a.next, idx)}]
    ELSE [mem |-> Store(m, a.next, idx, Propagate(m, a, W, k, idx)),
          rd |-> {Loc(a.elevation, idx), Loc(a.previous, idx)}
                 \cup {Loc(a.current, x) : x \in Stencil(W, idx)},
          wr |-> {Loc(a.next, idx)}]

\* One work item (i, j) of wave_update on device memory m: the memory it
\* leaves, and the locations it read (rd) and wrote (wr).
wave_update(m, a, W, H, k, i, j) ==
    LET idx == i * W + j IN
    IF OutOfBounds(W, H, i, j)
    THEN [mem |-> m, rd |-> {}, wr |-> {}]
    ELSE IF IsLand(m, a, idx)
    THEN [mem |-> Store(m, a.next, idx, Load(m, a.current, idx)),
          rd |-> {Loc(a.elevation, idx), Loc(a.current, idx)},
          wr |-> {Loc(a.next, idx)}]
    ELSE IF IsEdge(W, H, i, j)
    THEN [mem |-> Store(m, a.next, idx, 0),
          rd |-> {Loc(a.elevation, idx)},
          wr |-> {Loc(a.next, idx)}]
    ELSE [mem |-> Store(m, a.next, idx, Propagate(m, a, W, k, idx)),
          rd |-> {Loc(a.elevation, idx), Loc(a.previous, idx)}
                 \cup {Loc(a.current, x) : x \in Stencil(W, idx)},
          wr |-> {Loc(a.next, idx)}]

\* cl::NDRange(WIDTH, HEIGHT): the work items of one dispatch, as <<i, j>>
\* (get_global_id(1), get_global_id(0)).
NDRange(W, H) == (0 .. H - 1) \X (0 .. W - 1)

\* What work item (i, j) adds to the result acc of the work items before it.
RunItem(acc, a, W, H, k, i, j) ==
    LET item == wave_update(acc.mem, a, W, H, k, i, j)
    IN [mem |-> item.mem, rd |-> acc.rd \cup item.rd, wr |-> acc.wr \cup item.wr]

\* The first n work items of row i, run one after the other from acc.  (The
\* result of the items before is bound as a value before the next item is
\* applied to it.)
RECURSIVE RunRow(_, _, _, _, _, _, _)
RunRow(acc, a, W, H, k, i, n) ==
    IF n = 0 THEN acc
    ELSE CHOOSE r \in {RunItem(before, a, W, H, k, i, n - 1) :
                          before \in {RunRow(acc, a, W, H, k, i, n - 1)}} : TRUE

\* The first n rows, run one after the other from acc.
RECURSIVE RunRows(_, _, _, _, _, _)
RunRows(acc, a, W, H, k, n) ==
    IF n = 0 THEN acc
    ELSE CHOOSE r \in {RunRow(before, a, W, H, k, n - 1, W) :
                          before \in {RunRows(acc, a, W, H, k, n - 1)}} : TRUE

\* A whole dispatch of wave_update over NDRange(W, H), its work items run one
\* after the other in row-major order from memory m.
Dispatch(m, a, W, H, k) == RunRows([mem |-> m, rd |-> {}, wr |-> {}], a, W, H, k, H)

\* ---------------------------------------------------------------- the host
\* A host vector as device buffer contents.
FixAll(k, v) == [idx \in DOMAIN v |-> Fix(k, v[idx])]

\* What a buffer created without CL_MEM_COPY_HOST_PTR may hold.
Uninitialised(W, H) == {[idx \in Cells(W, H) |-> g] : g \in {0, 1}}

\* Mutant: the first copy goes into bufferElevation.
CopyNextToElevation(step) ==
    [op |-> "copy", step |-> step, src |-> "bufferNext", dst |-> "bufferElevation"]

\* Mutant: the second copy moves the new field into bufferCurrent.
CopyNextToCurrent(step) ==
    [op |-> "copy", step |-> step, src |-> "bufferNext", dst |-> "bufferCurrent"]

\* The commands main enqueues in timestep step, and the readback.
KernelCmd(step) == [op |-> "kernel", step |-> step]
CopyNextToPrevious(step) ==
    [op |-> "copy", step |-> step, src |-> "bufferNext", dst |-> "bufferPrevious"]
CopyCurrentToNext(step) ==
    [op |-> "copy", step |-> step, src |-> "bufferCurrent", dst |-> "bufferNext"]
ReadCmd(step) == [op |-> "read", step |-> step, src |-> "bufferCurrent"]

\* Mutant: the loop condition is t <= TIMESTEPS.
LoopPc_OneMore(n) == IF n <= cfg.T THEN "enqueueKernel" ELSE "finish"

\* for (int t = 0; t < TIMESTEPS; t++): where the host goes with counter n.
LoopPc(n) == IF n < cfg.T THEN "enqueueKernel" ELSE "finish"

NoAccess == [cmd |-> 0, rd |-> {}, wr |-> {}]

\* main has thrown nothing, written nothing to std::cerr and not returned.
Running == [err |-> "none", cerr |-> <<>>, ret |-> <<>>, issued |-> 0]

InitOf(configs) ==
    /\ cfg \in configs
    /\ mem \in {[bufferCurrent |-> FixAll(cfg.k, cfg.current),
                 bufferPrevious |-> FixAll(cfg.k, cfg.previous),
                 bufferNext |-> u,
                 bufferElevation |-> cfg.elevation] : u \in Uninitialised(cfg.W, cfg.H)}
    /\ hostCurrent = FixAll(cfg.k, cfg.current)
    /\ t = 0
    /\ pc = IF 0 < cfg.T THEN "enqueueKernel" ELSE "finish"
    /\ cmds = <<>>
    /\ status = <<>>
    /\ done = <<>>
    /\ kacc = NoAccess
    /\ hist = [cur |-> <<>>, prev |-> <<>>, out |-> <<>>]
    /\ wlog = {}
    /\ probe = <<>>
    /\ outcome = Running

Init == InitOf(Configs)

\* An enqueue on the command queue: the call returns at once.
Enqueue(cmd) ==
    /\ cmds' = Append(cmds, cmd)
    /\ status' = Append(status, "queued")
    /\ done' = Append(done, {})

\* queue.enqueueNDRangeKernel(kernel, NullRange, NDRange(WIDTH, HEIGHT), NullRange)
EnqueueKernel ==
    /\ pc = "enqueueKernel"
    /\ Enqueue(KernelCmd(t + 1))
    /\ pc' = "enqueueCopy1"
    /\ UNCHANGED <<cfg, mem, t, hostCurrent, hist, wlog, kacc, probe, outcome>>

\* queue.enqueueCopyBuffer(bufferNext, bufferPrevious, ...)
EnqueueCopy1 ==
    /\ pc = "enqueueCopy1"
    /\ Enqueue(CopyNextToPrevious(t + 1))
    /\ pc' = "enqueueCopy2"
    /\ UNCHANGED <<cfg, mem, t, hostCurrent, hist, wlog, kacc, probe, outcome>>

\* queue.enqueueCopyBuffer(bufferCurrent, bufferNext, ...); t++
EnqueueCopy2 ==
    /\ pc = "enqueueCopy2"
    /\ Enqueue(CopyCurrentToNext(t + 1))
    /\ t' = t + 1
    /\ pc' = LoopPc(t + 1)
    /\ UNCHANGED <<cfg, mem, hostCurrent, hist, wlog, kacc, probe, outcome>>

\* queue.finish(): returns when every enqueued command has completed.
Finish ==
    /\ pc = "finish"
    /\ \A c \in 1 .. Len(cmds) : status[c] = "complete"
    /\ pc' = "read"
    /\ UNCHANGED <<cfg, mem, t, cmds, status, done, hostCurrent, hist, wlog, kacc, probe, outcome>>

\* queue.enqueueReadBuffer(bufferCurrent, CL_TRUE, ..., current.data()): the
\* enqueue, and then the blocking wait for the read.
EnqueueRead ==
    /\ pc = "read"
    /\ Enqueue(ReadCmd(t))
    /\ pc' = "waitRead"
    /\ UNCHANGED <<cfg, mem, t, hostCurrent, hist, wlog, kacc, probe, outcome>>

\* The blocking read returns; the try block ends and main returns 0.
ReadReturns ==
    /\ pc = "waitRead"
    /\ status[Len(cmds)] = "complete"
    /\ pc' = "done"
    /\ outcome' = [outcome EXCEPT !.ret = <<0>>]
    /\ UNCHANGED <<cfg, mem, t, cmds, status, done, hostCurrent, hist, wlog, kacc, probe>>

\* -------------------------------------------------------------- the device
\* Mutant: an out-of-order queue, which may start any queued command.
Eligible_OutOfOrder(st) == {c \in 1 .. Len(st) : st[c] = "queued"}

\* cl::CommandQueue queue(context, device): no properties, so the queue is
\* in-order; a command may start once every command enqueued before it has
\* completed.
Eligible(st) ==
    {c \in 1 .. Len(st) : st[c] = "queued" /\ \A b \in 1 .. c - 1 : st[b] = "complete"}

Writes(step, c, op, wr) ==
    {[step |-> step, cmd |-> c, op |-> op, buf |-> l.buf] : l \in wr}

\* The effect of enqueueCopyBuffer(src, dst, 0, 0, sizeof(float) * grid_size).
CopyBuffer(m, src, dst) == [m EXCEPT ![dst] = m[src]]

\* All locations of a buffer.
Whole(buf) == {Loc(buf, x) : x \in Cells(cfg.W, cfg.H)}

\* --- commands as single steps
\* The device runs kernel command c from start to completion.  hist records
\* the fields it is given as current and previous and the field it leaves in
\* next.
ExecKernel(c) ==
    /\ c \in Eligible(status)
    /\ cmds[c].op = "kernel"
    /\ \E r \in {Dispatch(mem, KernelArgs, cfg.W, cfg.H, cfg.k)} :
          /\ mem' = r.mem
          /\ kacc' = [cmd |-> c, rd |-> r.rd, wr |-> r.wr]
          /\ wlog' = wlog \cup Writes(cmds[c].step, c, "kernel", r.wr)
          /\ hist' = [cur |-> Append(hist.cur, mem[KernelArgs.current]),
                      prev |-> Append(hist.prev, mem[KernelArgs.previous]),
                      out |-> Append(hist.out, r.mem[KernelArgs.next])]
    /\ done' = [done EXCEPT ![c] = NDRange(cfg.W, cfg.H)]
    /\ status' = [status EXCEPT ![c] = "complete"]
    /\ UNCHANGED <<cfg, pc, t, cmds, hostCurrent, probe, outcome>>

\* The device runs copy command c.
ExecCopy(c) ==
    /\ c \in Eligible(status)
    /\ cmds[c].op = "copy"
    /\ mem' = CopyBuffer(mem, cmds[c].src, cmds[c].dst)
    /\ kacc' = [cmd |-> c, rd |-> Whole(cmds[c].src), wr |-> Whole(cmds[c].dst)]
    /\ wlog' = wlog \cup Writes(cmds[c].step, c, "copy", Whole(cmds[c].dst))
    /\ status' = [status EXCEPT ![c] = "complete"]
    /\ UNCHANGED <<cfg, pc, t, cmds, done, hostCurrent, hist, probe, outcome>>

\* The device runs the readback c into the host vector current.
ExecRead(c) ==
    /\ c \in Eligible(status)
    /\ cmds[c].op = "read"
    /\ hostCurrent' = mem[cmds[c].src]
    /\ kacc' = [cmd |-> c, rd |-> Whole(cmds[c].src), wr |-> {}]
    /\ status' = [status EXCEPT ![c] = "complete"]
    /\ UNCHANGED <<cfg, mem, pc, t, cmds, done, hist, wlog, probe, outcome>>

\* --- commands in steps: start, the work items one by one, completion
\* The device starts command c.  A kernel's buffers are those bound when it
\* starts; hist records the fields it is given as current and previous.
Start(c) ==
    /\ c \in Eligible(status)
    /\ status' = [status EXCEPT ![c] = "running"]
    /\ kacc' = [cmd |-> c, rd |-> {}, wr |-> {}]
    /\ hist' = IF cmds[c].op = "kernel"
               THEN [hist EXCEPT !.cur = Append(@, mem[KernelArgs.current]),
                                 !.prev = Append(@, mem[KernelArgs.previous])]
               ELSE hist
    /\ UNCHANGED <<cfg, mem, pc, t, cmds, done, hostCurrent, wlog, probe, outcome>>

\* One work item of a running kernel command.
WorkItem(c, i, j) ==
    /\ status[c] = "running"
    /\ cmds[c].op = "kernel"
    /\ <<i, j>> \in NDRange(cfg.W, cfg.H) \ done[c]
    /\ \E r \in {wave_update(mem, KernelArgs, cfg.W, cfg.H, cfg.k, i, j)} :
          /\ mem' = r.mem
          /\ kacc' = [cmd |-> c, rd |-> kacc.rd \cup r.rd, wr |-> kacc.wr \cup r.wr]
          /\ wlog' = wlog \cup Writes(cmds[c].step, c, "kernel", r.wr)
    /\ done' = [done EXCEPT ![c] = @ \cup {<<i, j>>}]
    /\ UNCHANGED <<cfg, pc, t, cmds, status, hostCurrent, hist, probe, outcome>>

\* A kernel command completes when all its work items have run.
CompleteKernel(c) ==
    /\ status[c] = "running"
    /\ cmds[c].op = "kernel"
    /\ done[c] = NDRange(cfg.W, cfg.H)
    /\ status' = [status EXCEPT ![c] = "complete"]
    /\ hist' = [hist EXCEPT !.out = Append(@, mem[KernelArgs.next])]
    /\ UNCHANGED <<cfg, mem, pc, t, cmds, done, hostCurrent, wlog, kacc, probe, outcome>>

\* A copy command completes.
CompleteCopy(c) ==
    /\ status[c] = "running"
    /\ cmds[c].op = "copy"
    /\ mem' = CopyBuffer(mem, cmds[c].src, cmds[c].dst)
    /\ kacc' = [cmd |-> c, rd |-> Whole(cmds[c].src), wr |-> Whole(cmds[c].dst)]
    /\ wlog' = wlog \cup Writes(cmds[c].step, c, "copy", Whole(cmds[c].dst))
    /\ status' = [status EXCEPT ![c] = "complete"]
    /\ UNCHANGED <<cfg, pc, t, cmds, done, hostCurrent, hist, probe, outcome>>

\* The readback completes.
CompleteRead(c) ==
    /\ status[c] = "running"
    /\ cmds[c].op = "read"
    /\ hostCurrent' = mem[cmds[c].src]
    /\ kacc' = [cmd |-> c, rd |-> Whole(cmds[c].src), wr |-> {}]
    /\ status' = [status EXCEPT ![c] = "complete"]
    /\ UNCHANGED <<cfg, mem, pc, t, cmds, done, hist, wlog, probe, outcome>>

\* ------------------------------------------------------ the specifications
ExecKernelSome == \E c \in 1 .. Len(cmds) : ExecKernel(c)
ExecCopySome == \E c \in 1 .. Len(cmds) : ExecCopy(c)
ExecReadSome == \E c \in 1 .. Len(cmds) : ExecRead(c)
StartSome == \E c \in 1 .. Len(cmds) : Start(c)
WorkItemSome ==
    \E c \in 1 .. Len(cmds) : \E wi \in NDRange(cfg.W, cfg.H) : WorkItem(c, wi[1], wi[2])
CompleteKernelSome == \E c \in 1 .. Len(cmds) : CompleteKernel(c)
CompleteCopySome == \E c \in 1 .. Len(cmds) : CompleteCopy(c)
CompleteReadSome == \E c \in 1 .. Len(cmds) : CompleteRead(c)

\* The run of main, the device executing each command as one step; a dispatch
\* runs its work items in row-major order (C8_OrderIndependent, on ParSpec,
\* shows that their order does not matter).
Next ==
    \/ EnqueueKernel
    \/ EnqueueCopy1
    \/ EnqueueCopy2
    \/ Finish
    \/ EnqueueRead
    \/ ReadReturns
    \/ ExecKernelSome
    \/ ExecCopySome
    \/ ExecReadSome

Spec == Init /\ [][Next]_vars

\* The run of main, the work items of a dispatch executed one by one in any
\* order.
ParInit == InitOf({c \in ParConfigs : c.W * c.H <= ParMaxCells})

ParNext ==
    \/ EnqueueKernel
    \/ EnqueueCopy1
    \/ EnqueueCopy2
    \/ Finish
    \/ EnqueueRead
    \/ ReadReturns
    \/ StartSome
    \/ WorkItemSome
    \/ CompleteKernelSome
    \/ CompleteCopySome
    \/ CompleteReadSome

ParSpec == ParInit /\ [][ParNext]_vars

\* The kernel alone: one work item, inside the grid or up to Pad outside it,
\* applied to the initial device memory.
KernelInit == InitOf({c \in SmallConfigs : c.T = 1})

ApplyKernel ==
    /\ probe = <<>>
    /\ \E i \in -Pad .. cfg.H - 1 + Pad, j \in -Pad .. cfg.W - 1 + Pad :
       \E r \in {wave_update(mem, KernelArgs, cfg.W, cfg.H, cfg.k, i, j)} :
          /\ probe' = <<i, j>>
          /\ mem' = r.mem
          /\ kacc' = [cmd |-> 0, rd |-> r.rd, wr |-> r.wr]
    /\ UNCHANGED <<cfg, pc, t, cmds, status, done, hostCurrent, hist, wlog, outcome>>

KernelNext == ApplyKernel

KernelSpec == KernelInit /\ [][KernelNext]_vars

\* --- the run of main from buffer creation on, with calls that fail
\* The configurations of that run: WIDTH and HEIGHT from 0, TIMESTEPS from 0,
\* and a coefficient above the stability threshold (dt_dx2 = 2) beside one
\* below it.
FaultCoeffs == {[num |-> 1, den |-> 4], [num |-> 2, den |-> 1]}

FaultConfigs ==
    UNION {
        {HostInit(W, H, T, k, {}, CentreSplash(W, H)) :
            T \in 0 .. MaxT, k \in FaultCoeffs} :
        W \in 0 .. MaxDim, H \in 0 .. MaxDim}

\* main before it creates its buffers: the host vectors are filled, nothing
\* is on the device.
FaultInit ==
    /\ cfg \in FaultConfigs
    /\ mem = [bufferCurrent |-> <<>>, bufferPrevious |-> <<>>,
              bufferNext |-> <<>>, bufferElevation |-> <<>>]
    /\ hostCurrent = FixAll(cfg.k, cfg.current)
    /\ t = 0
    /\ pc = "createBuffers"
    /\ cmds = <<>>
    /\ status = <<>>
    /\ done = <<>>
    /\ kacc = NoAccess
    /\ hist = [cur |-> <<>>, prev |-> <<>>, out |-> <<>>]
    /\ wlog = {}
    /\ probe = <<>>
    /\ outcome = Running

\* A call throws cl::Error (__CL_ENABLE_EXCEPTIONS): control leaves the try
\* block for the handler.
Raise(call) ==
    /\ pc' = "catch"
    /\ outcome' = [outcome EXCEPT !.err = call, !.issued = Len(cmds)]

\* cl::Buffer bufferCurrent(...) ... kernel.setArg(6, dt_dx2).  A buffer of
\* sizeof(float) * grid_size = 0 bytes cannot be created
\* (CL_INVALID_BUFFER_SIZE); nothing else about the configuration is tested.
CreateBuffers ==
    /\ pc = "createBuffers"
    /\ IF cfg.W * cfg.H = 0
       THEN /\ Raise("createBuffers")
            /\ mem' = mem
       ELSE /\ mem' \in {[bufferCurrent |-> FixAll(cfg.k, cfg.current),
                          bufferPrevious |-> FixAll(cfg.k, cfg.previous),
                          bufferNext |-> u,
                          bufferElevation |-> cfg.elevation] :
                            u \in Uninitialised(cfg.W, cfg.H)}
            /\ pc' = LoopPc(0)
            /\ outcome' = outcome
    /\ UNCHANGED <<cfg, t, cmds, status, done, hostCurrent, hist, wlog, kacc, probe>>

\* The calls of the time-stepping loop and after it, by the host's position.
Calls == {"enqueueKernel", "enqueueCopy1", "enqueueCopy2", "finish", "read", "waitRead"}

\* The call the host is at fails and throws.  An enqueue that fails enqueues
\* nothing; the blocking read can also fail after its enqueue, before the
\* read has completed, and then never completes.
Throw ==
    /\ pc \in Calls
    /\ pc = "waitRead" => status[Len(cmds)] # "complete"
    /\ Raise(pc)
    /\ status' = IF pc = "waitRead"
                 THEN [status EXCEPT ![Len(cmds)] = "failed"]
                 ELSE status
    /\ UNCHANGED <<cfg, mem, t, cmds, done, hostCurrent, hist, wlog, kacc, probe>>

\* catch (const cl::Error& err) { std::cerr << "OpenCL error: " << err.what()
\* ... }  return 0;
Catch ==
    /\ pc = "catch"
    /\ pc' = "done"
    /\ outcome' = [outcome EXCEPT !.cerr = Append(@, <<"OpenCL error", outcome.err>>),
                                  !.ret = <<0>>]
    /\ UNCHANGED <<cfg, mem, t, cmds, status, done, hostCurrent, hist, wlog, kacc, probe>>

\* The commands enqueued before a failure stay on the queue and may still
\* run on the device.
FaultNext ==
    \/ CreateBuffers
    \/ EnqueueKernel
    \/ EnqueueCopy1
    \/ EnqueueCopy2
    \/ Finish
    \/ EnqueueRead
    \/ ReadReturns
    \/ Throw
    \/ Catch
    \/ ExecKernelSome
    \/ ExecCopySome
    \/ ExecReadSome

FaultSpec == FaultInit /\ [][FaultNext]_vars

\* --- the run of main under fair scheduling
\* All water, with the splash of the source or with no splash at all (a field
\* that is at rest from the start).
TermConfigs ==
    UNION {
        {HostInit(W, H, T, k, {}, splash) :
            T \in 1 .. MaxT, k \in Coeffs, splash \in {{}, CentreSplash(W, H)}} :
        W \in 1 .. MaxDim, H \in 1 .. MaxDim}

TermInit == InitOf(TermConfigs)

\* The host thread keeps running, and the device runs what is on its queue:
\* every work item of wave_update is straight-line code, every copy and read
\* is finite.
TermSpec == TermInit /\ [][Next]_vars /\ WF_vars(Next)

\* --- the run of main over LongT timesteps
\* Coefficients below and above the stability threshold, any single land cell
\* or none, and a splash on the middle cell alone or on the source's disc
\* around it.
LongConfigs ==
    UNION {
        {HostInit(W, H, LongT, k, land, splash) :
            k \in Coeffs \cup FaultCoeffs,
            land \in LandMaps(W, H),
            splash \in {CentreSplash(W, H), Disc(W, H, H \div 2, W \div 2, 0)}} :
        W \in 1 .. MaxDim, H \in 1 .. MaxDim}

LongInit == InitOf(LongConfigs)

LongSpec == LongInit /\ [][Next]_vars

\* On every memory the run reaches, dt_dx2 times the neighbour term is a whole
\* number of fixed-point units: Mul rounds nothing.
ExactArithmetic ==
    \A idx \in Cells(cfg.W, cfg.H) :
        (/\ 0 < idx \div cfg.W
         /\ idx \div cfg.W < cfg.H - 1
         /\ 0 < idx % cfg.W
         /\ idx % cfg.W < cfg.W - 1)
        => LET c == mem[KernelArgs.current]
           IN (cfg.k.num * (c[idx - cfg.W] + c[idx + cfg.W] + c[idx - 1] + c[idx + 1]
                            - 4 * c[idx])) % cfg.k.den = 0

\* ================================================================ claims
\* The number of dispatches that have completed.
Dispatched == Len(hist.out)

\* The initial displacement, as the device holds it.
Initial == FixAll(cfg.k, cfg.current)

IsBoundary(idx) ==
    \/ idx \div cfg.W = 0
    \/ idx \div cfg.W = cfg.H - 1
    \/ idx % cfg.W = 0
    \/ idx % cfg.W = cfg.W - 1

IsInterior(idx) ==
    /\ 0 < idx \div cfg.W
    /\ idx \div cfg.W < cfg.H - 1
    /\ 0 < idx % cfg.W
    /\ idx % cfg.W < cfg.W - 1

Grid == Cells(cfg.W, cfg.H)

\* C1 (as claimed): when main has read the result back, the field it holds is
\* the field the last (T-th) dispatch computed.
C1_ReadbackIsLastDispatch ==
    pc = "done" => hostCurrent = hist.out[Dispatched]

\* C2 (as claimed): dispatch n + 1 reads as current the field dispatch n
\* wrote, and as previous the field dispatch n read as current.
C2_BuffersRotate ==
    \A n \in 1 .. Len(hist.cur) - 1 :
        /\ hist.cur[n + 1] = hist.out[n]
        /\ hist.prev[n + 1] = hist.cur[n]

\* The field the specification expects of the end-to-end scenario: 0 at
\* (4,4), 0.25 at its four neighbours, 0 elsewhere (in units of 1/4).
ScenarioExpected ==
    [idx \in Cells(8, 8) |->
        IF idx \in {3 * 8 + 4, 5 * 8 + 4, 4 * 8 + 3, 4 * 8 + 5} THEN 1 ELSE 0]

\* C3 (as claimed): in the end-to-end scenario the field main ends with after
\* its one timestep is the expected field.
C3_ScenarioResult ==
    (cfg = Scenario /\ pc = "done") => hostCurrent = ScenarioExpected

\* What the scenario's one dispatch itself writes is the expected field; it
\* is the readback that does not return it.
ScenarioStencilOutput ==
    (cfg = Scenario /\ Dispatched >= 1) => hist.out[1] = ScenarioExpected

\* The leapfrog formula of the specification on two fields, at cell idx.
Leapfrog(cur, prev, idx) ==
    2 * cur[idx] - prev[idx]
    + Mul(cfg.k, cur[idx - cfg.W] + cur[idx + cfg.W] + cur[idx - 1] + cur[idx + 1]
                 - 4 * cur[idx])

\* C4: in every completed dispatch n, every interior cell with elevation <= 0
\* has been written the leapfrog formula's value on the fields that were
\* current and previous when dispatch n started.
C4_LeapfrogFormula ==
    \A n \in 1 .. Dispatched : \A idx \in Grid :
        (IsInterior(idx) /\ cfg.elevation[idx] <= 0)
            => hist.out[n][idx] = Leapfrog(hist.cur[n], hist.prev[n], idx)

\* C4's case: two dispatches have run over an interior water cell; the first
\* wrote it a value other than its current one (the neighbour term is not
\* zero), and the second read a previous value other than the current one.
C4_Witness ==
    /\ Dispatched >= 2
    /\ \E idx \in Grid :
          /\ IsInterior(idx)
          /\ cfg.elevation[idx] <= 0
          /\ hist.out[1][idx] # hist.cur[1][idx]
          /\ hist.prev[2][idx] # hist.cur[2][idx]

\* C5: at every cell with elevation > 0, every completed dispatch wrote the
\* cell's initial displacement, and bufferCurrent and bufferPrevious hold it
\* at all times: the wave field on land after timestep t is what it was
\* after timestep t - 1.
C5_LandInvariant ==
    \A idx \in Grid :
        cfg.elevation[idx] > 0 =>
            /\ \A n \in 1 .. Dispatched : hist.out[n][idx] = Initial[idx]
            /\ mem.bufferCurrent[idx] = Initial[idx]
            /\ mem.bufferPrevious[idx] = Initial[idx]

\* C5's case: two dispatches have run over a land cell that carries a
\* non-zero displacement.
C5_Witness ==
    /\ Dispatched >= 2
    /\ \E idx \in Grid : cfg.elevation[idx] > 0 /\ Initial[idx] # 0

\* C6 (as claimed): every completed dispatch wrote 0 at every boundary cell.
C6_BoundaryZero ==
    \A n \in 1 .. Dispatched : \A idx \in Grid :
        IsBoundary(idx) => hist.out[n][idx] = 0

\* C6 (amended): every completed dispatch wrote 0 at every boundary cell with
\* elevation <= 0.
C6_WaterBoundaryZero ==
    \A n \in 1 .. Dispatched : \A idx \in Grid :
        (IsBoundary(idx) /\ cfg.elevation[idx] <= 0) => hist.out[n][idx] = 0

\* C6's case: a dispatch has run over a boundary water cell that carried a
\* non-zero displacement.
C6_Witness ==
    /\ Dispatched >= 1
    /\ \E idx \in Grid :
          IsBoundary(idx) /\ cfg.elevation[idx] <= 0 /\ hist.cur[1][idx] # 0

\* The locations the probed work item accessed.
ProbeAccesses == kacc.rd \cup kacc.wr

\* C7: a work item (i, j) accesses only indices in [0, W*H); one outside
\* [0,H) x [0,W) accesses nothing; and an index other than i*W + j is accessed
\* only by a work item with 0 < i < H-1 and 0 < j < W-1.
C7_NoOutOfRangeAccess ==
    probe # <<>> =>
        LET i == probe[1]
            j == probe[2]
        IN /\ \A l \in ProbeAccesses : 0 <= l.idx /\ l.idx < cfg.W * cfg.H
           /\ (i < 0 \/ i >= cfg.H \/ j < 0 \/ j >= cfg.W) => ProbeAccesses = {}
           /\ (\E l \in ProbeAccesses : l.idx # i * cfg.W + j)
                 => (0 < i /\ i < cfg.H - 1 /\ 0 < j /\ j < cfg.W - 1)

\* C7's case: a work item one row below the grid, whose linear index is past
\* the end of the buffers, has been applied.
C7_Witness ==
    /\ probe # <<>>
    /\ probe[1] = cfg.H
    /\ probe[2] \in 0 .. cfg.W - 1
    /\ ProbeAccesses = {}

\* The propagation branch is reached and reads its four neighbours.
C7_InteriorProbe ==
    /\ probe # <<>>
    /\ \E l \in ProbeAccesses : l.idx = probe[1] * cfg.W + probe[2] - cfg.W

\* One timestep of main's loop run without any concurrency: the work items
\* in row-major order, then the two copies.
SequentialTimestep(m, step) ==
    LET a == Dispatch(m, KernelArgs, cfg.W, cfg.H, cfg.k).mem
        b == CopyBuffer(a, CopyNextToPrevious(step).src, CopyNextToPrevious(step).dst)
    IN CopyBuffer(b, CopyCurrentToNext(step).src, CopyCurrentToNext(step).dst)

\* Device memory after n timesteps run that way.  bufferNext starts with
\* whatever it holds; every timestep overwrites all of it.
RECURSIVE SequentialRun(_)
SequentialRun(n) ==
    IF n = 0
    THEN [bufferCurrent |-> Initial, bufferPrevious |-> FixAll(cfg.k, cfg.previous),
          bufferNext |-> [idx \in Grid |-> 0], bufferElevation |-> cfg.elevation]
    ELSE SequentialTimestep(SequentialRun(n - 1), n)

\* The three commands of timesteps 1 .. n have completed and nothing later
\* has started.
Settled(n) ==
    /\ Len(cmds) >= 3 * n
    /\ \A c \in 1 .. 3 * n : status[c] = "complete"
    /\ Len(cmds) > 3 * n => status[3 * n + 1] = "queued"

\* C8: whatever the order in which the work items of each dispatch ran, all
\* buffers after each timestep and the field read back are those of the
\* sequential run; and no work item of a dispatch reads a location that a
\* work item of the same dispatch writes.
C8_OrderIndependent ==
    /\ (kacc.cmd # 0 /\ cmds[kacc.cmd].op = "kernel") => kacc.rd \cap kacc.wr = {}
    /\ \A n \in 1 .. cfg.T : Settled(n) => mem = SequentialRun(n)
    /\ pc = "done" => hostCurrent = SequentialRun(cfg.T).bufferCurrent

\* C8's case: on a grid with an interior cell, the work items of the first
\* dispatch have all run, they changed the field, and the first timestep has
\* completed.
C8_Witness ==
    /\ cfg.W >= 3
    /\ cfg.H >= 3
    /\ Settled(1)
    /\ hist.out[1] # hist.cur[1]

\* A dispatch is under way in an order that is not row-major: the last work
\* item has run and the first has not.
C8_OutOfOrderItems ==
    \E c \in 1 .. Len(cmds) :
        /\ status[c] = "running"
        /\ cmds[c].op = "kernel"
        /\ cfg.W * cfg.H >= 9
        /\ <<cfg.H - 1, cfg.W - 1>> \in done[c]
        /\ <<0, 0>> \notin done[c]

\* C9: a command has started only if every command enqueued before it has
\* completed, a dispatch with all its work items run: the copies of a
\* timestep start after its dispatch has written every cell, and the next
\* dispatch starts after both copies.
C9_Barrier ==
    \A c \in 1 .. Len(cmds) : \A b \in 1 .. c - 1 :
        status[c] # "queued" =>
            /\ status[b] = "complete"
            /\ cmds[b].op = "kernel" => done[b] = NDRange(cfg.W, cfg.H)

\* C9's case: the host has enqueued all 3 * T commands of at least two
\* timesteps and reached finish while the first dispatch is still running
\* part-way through its work items.
C9_Witness ==
    /\ pc = "finish"
    /\ cfg.T >= 2
    /\ Len(cmds) = 3 * cfg.T
    /\ status[1] = "running"
    /\ done[1] # {}
    /\ done[1] # NDRange(cfg.W, cfg.H)

\* The buffers a set of locations lies in.
Buffers(locs) == {l.buf : l \in locs}

\* C10 (as claimed): within a timestep each buffer is written by at most one
\* command, the only writer is the dispatch writing bufferNext, and no
\* command reads and writes the same buffer.
C10_SingleWriter ==
    /\ \A w1 \in wlog : \A w2 \in wlog :
          (w1.step = w2.step /\ w1.buf = w2.buf) => w1.cmd = w2.cmd
    /\ \A w \in wlog : w.op = "kernel" /\ w.buf = KernelArgs.next
    /\ Buffers(kacc.rd) \cap Buffers(kacc.wr) = {}

\* main has ended without any failure.
EndedInSuccess == pc = "done" /\ outcome.err = "none"

\* A successful run returns 0 and writes nothing to std::cerr.
SuccessReturnsZero == EndedInSuccess => (outcome.ret = <<0>> /\ outcome.cerr = <<>>)

\* After a failed call nothing more is enqueued, the failure is written to
\* std::cerr once, and the failed call is not made again.
NothingIssuedAfterFailure ==
    outcome.err # "none" =>
        /\ Len(cmds) = outcome.issued
        /\ pc \in {"catch", "done"}
        /\ pc = "done" => outcome.cerr = <<(<<"OpenCL error", outcome.err>>)>>

BadConfig(c) == c.W <= 0 \/ c.H <= 0 \/ c.T <= 0 \/ c.k.num > c.k.den

\* C12 (as claimed): with a configuration error no dispatch, copy or readback
\* is ever enqueued, and main ends having caught an error.
C12_ConfigRejected ==
    BadConfig(cfg) =>
        /\ cmds = <<>>
        /\ pc = "done" => outcome.err # "none"

\* An empty grid is the one configuration error that stops the run before
\* the loop: creating its buffers fails.
EmptyGridStopsEarly ==
    (cfg.W * cfg.H = 0 /\ pc # "createBuffers") => (outcome.err = "createBuffers" /\ cmds = <<>>)

\* The commands a run of T timesteps issues, in order: per timestep the
\* dispatch and the two copies, and at the end the readback.
Program(T) ==
    [c \in 1 .. 3 * T + 1 |->
        IF c = 3 * T + 1 THEN ReadCmd(T)
        ELSE IF c % 3 = 1 THEN KernelCmd((c + 2) \div 3)
        ELSE IF c % 3 = 2 THEN CopyNextToPrevious((c + 1) \div 3)
        ELSE CopyCurrentToNext(c \div 3)]

\* What main has issued is at all times the start of Program(TIMESTEPS), and
\* when main has ended it is all of it, completed, with TIMESTEPS dispatches.
IssuesProgram ==
    /\ Len(cmds) <= 3 * cfg.T + 1
    /\ cmds = SubSeq(Program(cfg.T), 1, Len(cmds))
    /\ pc = "done" =>
          /\ cmds = Program(cfg.T)
          /\ t = cfg.T
          /\ Dispatched = cfg.T
          /\ \A c \in 1 .. Len(cmds) : status[c] = "complete"

\* C13: the run issues exactly T dispatches, each followed by its two copies,
\* then the readback, whatever the field values are, and then ends.
C13_BoundedRun == []IssuesProgram /\ <>(pc = "done")

\* C13's case: a run of at least two timesteps has ended on a field that was
\* at rest from the start (every dispatch wrote what it read): a convergence
\* test would have ended it after the first.
C13_Witness ==
    /\ pc = "done"
    /\ cfg.T >= 2
    /\ Dispatched = cfg.T
    /\ cfg.W >= 3
    /\ cfg.H >= 3
    /\ \A n \in 1 .. Dispatched : hist.out[n] = hist.cur[n]

\* The largest magnitude in a field.
RECURSIVE PeakOver(_, _)
PeakOver(f, cells) ==
    IF cells = {} THEN 0
    ELSE LET idx == CHOOSE x \in cells : TRUE
             rest == PeakOver(f, cells \ {idx})
             a == IF f[idx] < 0 THEN -f[idx] ELSE f[idx]
         IN IF a > rest THEN a ELSE rest

Peak(f) == PeakOver(f, DOMAIN f)

\* k is above the stability threshold and the initial splash covers an
\* interior water cell.
UnstableSplash ==
    /\ cfg.k.num > cfg.k.den
    /\ \E idx \in Grid : IsInterior(idx) /\ cfg.elevation[idx] <= 0 /\ Initial[idx] # 0

\* C14 (as claimed): with k above the stability threshold and a splash on
\* interior water, the field's magnitude exceeds every bound in time.  The
\* scheme is deterministic in the two fields a dispatch reads, so a run whose
\* magnitude is unbounded never gives a dispatch the same two fields twice.
C14_Diverges ==
    UnstableSplash =>
        \A n \in 1 .. Len(hist.cur) : \A m \in 1 .. Len(hist.cur) :
            n < m => <<hist.cur[n], hist.prev[n]>> # <<hist.cur[m], hist.prev[m]>>

\* What the code does instead: no dispatch writes, and no buffer ever holds, a
\* magnitude above those of the initial field and of the first dispatch.
MagnitudeBounded ==
    Dispatched >= 1 =>
        LET B == IF Peak(Initial) > Peak(hist.out[1]) THEN Peak(Initial)
                 ELSE Peak(hist.out[1])
        IN /\ \A n \in 1 .. Dispatched : Peak(hist.out[n]) <= B
           /\ Settled(Dispatched) =>
                 /\ Peak(mem.bufferCurrent) <= B
                 /\ Peak(mem.bufferPrevious) <= B
                 /\ Peak(mem.bufferNext) <= B

\* The unstable case does occur: the first dispatch multiplies the magnitude.
UnstableGrowthStarts ==
    /\ UnstableSplash
    /\ Dispatched >= 3
    /\ Peak(hist.out[1]) > Peak(Initial)

\* C19: bufferPrevious after timestep n + 2 holds what it held after timestep
\* n (hist.prev[n + 1] is bufferPrevious after timestep n), each dispatch
\* writes what the dispatch two before it wrote, and so the dispatches write
\* at most two different fields.
C19_PeriodTwo ==
    /\ \A n \in 2 .. Len(hist.prev) - 2 : hist.prev[n + 2] = hist.prev[n]
    /\ \A n \in 1 .. cfg.T - 2 : Settled(n + 2) => mem.bufferPrevious = hist.out[n]
    /\ \A n \in 1 .. Dispatched - 2 : hist.out[n + 2] = hist.out[n]
    /\ Cardinality({hist.out[n] : n \in 1 .. Dispatched}) <= 2

\* C19's case: four timesteps have completed and the first two dispatches
\* wrote different fields.
C19_Witness ==
    /\ Settled(4)
    /\ hist.out[1] # hist.out[2]
    /\ hist.out[3] # hist.out[4]

\* C15: no dispatch, copy or readback writes bufferElevation, and it holds
\* the initialised elevation at all times.
C15_ElevationImmutable ==
    /\ mem.bufferElevation = cfg.elevation
    /\ \A w \in wlog : w.buf # "bufferElevation"
    /\ \A l \in kacc.wr : l.buf # "bufferElevation"

\* C15's case: a run of several timesteps over a grid with land has ended,
\* its dispatches and copies having written buffers in every timestep.
C15_Witness ==
    /\ pc = "done"
    /\ \E idx \in Grid : cfg.elevation[idx] > 0
    /\ \A n \in 1 .. cfg.T : \E w \in wlog : w.step = n /\ w.op = "copy"
    /\ \A n \in 1 .. cfg.T : \E w \in wlog : w.step = n /\ w.op = "kernel"

\* C16: the host vectors previous and current are equal, the two buffers are
\* equal until the first dispatch, the first dispatch is given equal fields,
\* and so it writes current[idx] + k * (neighbour term) at every interior
\* water cell: the term current[idx] - previous[idx] is zero.
C16_StartFromRest ==
    /\ cfg.previous = cfg.current
    /\ Len(hist.cur) = 0 => mem.bufferPrevious = mem.bufferCurrent
    /\ Len(hist.cur) >= 1 => hist.prev[1] = hist.cur[1]
    /\ Dispatched >= 1 =>
          \A idx \in Grid :
              (IsInterior(idx) /\ cfg.elevation[idx] <= 0) =>
                  hist.out[1][idx]
                      = hist.cur[1][idx]
                        + Mul(cfg.k, hist.cur[1][idx - cfg.W] + hist.cur[1][idx + cfg.W]
                                     + hist.cur[1][idx - 1] + hist.cur[1][idx + 1]
                                     - 4 * hist.cur[1][idx])

\* C16's case: the first dispatch has run over an interior water cell that
\* carries the splash.
C16_Witness ==
    /\ Dispatched >= 1
    /\ \E idx \in Grid :
          IsInterior(idx) /\ cfg.elevation[idx] <= 0 /\ hist.cur[1][idx] # 0

\* C17: the only copies are bufferNext -> bufferPrevious and bufferCurrent ->
\* bufferNext, no command writes bufferCurrent, it holds the initial
\* displacement at all times, and so does the field read back.
C17_CurrentNeverAdvanced ==
    /\ \A c \in 1 .. Len(cmds) :
          cmds[c].op = "copy" =>
              <<cmds[c].src, cmds[c].dst>> \in {<<"bufferNext", "bufferPrevious">>,
                                               <<"bufferCurrent", "bufferNext">>}
    /\ \A w \in wlog : w.buf # "bufferCurrent"
    /\ \A l \in kacc.wr : l.buf # "bufferCurrent"
    /\ mem.bufferCurrent = Initial
    /\ pc = "done" => hostCurrent = Initial

\* C17's case: a run of at least three timesteps has ended, its first, third,
\* ... dispatches wrote a field other than the initial one, and the field
\* read back is the initial one.
C17_Witness ==
    /\ pc = "done"
    /\ cfg.T >= 3
    /\ \A n \in 1 .. Dispatched : n % 2 = 1 => hist.out[n] # Initial
    /\ hostCurrent = Initial

\* The probed work item applied the edge rule: it wrote its cell having read
\* neither current nor previous.
ProbeWroteConstant ==
    /\ kacc.wr # {}
    /\ \A l \in kacc.rd : l.buf = KernelArgs.elevation

\* C18: a work item on a boundary cell with elevation > 0 reads current[idx]
\* and writes it to next[idx]; the edge rule, which writes 0, is applied on
\* boundary cells with elevation <= 0 and on no other cell.
C18_LandBeforeEdge ==
    (probe # <<>> /\ ~OutOfBounds(cfg.W, cfg.H, probe[1], probe[2])) =>
        LET idx == probe[1] * cfg.W + probe[2]
        IN /\ (IsBoundary(idx) /\ cfg.elevation[idx] > 0) =>
                 /\ Loc(KernelArgs.current, idx) \in kacc.rd
                 /\ mem[KernelArgs.next][idx] = Initial[idx]
           /\ (IsBoundary(idx) /\ cfg.elevation[idx] <= 0) =>
                 /\ ProbeWroteConstant
                 /\ mem[KernelArgs.next][idx] = 0
           /\ ProbeWroteConstant => (IsBoundary(idx) /\ cfg.elevation[idx] <= 0)

\* C18's case: the work item of a boundary cell with elevation > 0 and a
\* non-zero displacement has run, and left that displacement in next.
C18_Witness ==
    /\ probe # <<>>
    /\ ~OutOfBounds(cfg.W, cfg.H, probe[1], probe[2])
    /\ LET idx == probe[1] * cfg.W + probe[2]
       IN /\ IsBoundary(idx)
          /\ cfg.elevation[idx] > 0
          /\ Initial[idx] # 0
          /\ mem[KernelArgs.next][idx] = Initial[idx]

====
